---- MODULE Spec2Model ----
(***************************************************************************)
(* Feature engineering of the Security-Data-Pipeline                       *)
(* (src/src/feature_engineering.py): run_all and its four stages, as a     *)
(* state machine over the table the caller passes in.                      *)
(*                                                                         *)
(* A table is [cols, temporal, rows]: the set of column names, whether the *)
(* timestamp column has a datetime dtype, and the rows in order, each a    *)
(* function from the column names to values.  user_id values are the       *)
(* naturals 1, 2 standing for strings in their sort order; timestamps are  *)
(* seconds since the epoch (UTC).  A Float64 value is [na, num, den]: the  *)
(* mask bit of pandas' nullable array and the value as a reduced fraction. *)
(***************************************************************************)
EXTENDS Integers, Sequences, FiniteSets, TLC

\* Longest input table.
MaxRows == 3

\* Input values the tables are drawn from.
Users == {1, 2}
Times == {0, 60, 120, 121, 86400, 172800}
GapChoices == {1, 2}
Severities == {"info", "low", "medium", "high", "critical", "unknown", "debug"}
BaseColumns == {"event_id", "user_id", "timestamp", "severity"}

\* dt.floor("D"): seconds in a UTC calendar day.
DaySeconds == 86400
\* gap_seconds = gap_minutes * 60
SecondsPerMinute == 60

VARIABLES
    pc,           \* position in run_all: the stage about to run, "done" or "error"
    df,           \* run_all's local df: the table handed from stage to stage
    caller_df,    \* the table object the caller passed to run_all
    alias,        \* TRUE while df is the very object the caller passed
    df0,          \* ghost: the caller's table as it was when run_all was called
    gap_minutes   \* run_all's gap_minutes argument

vars == <<pc, df, caller_df, alias, df0, gap_minutes>>

----------------------------------------------------------------------------
(* Values *)

RECURSIVE Gcd(_, _)
Gcd(a, b) == IF b = 0 THEN a ELSE Gcd(b, a % b)

\* A defined Float64 value num/den (den > 0, num >= 0).
Float64(num, den) ==
    LET g == Gcd(num, den)
    IN  [na |-> FALSE, num |-> num \div g, den |-> den \div g]

\* The undefined Float64 value (<NA>).
NA == [na |-> TRUE, num |-> 0, den |-> 1]

\* diff() of a group's first row is NaN, which fillna(np.inf) makes infinite.
Inf == [inf |-> TRUE, sec |-> 0]
Finite(d) == [inf |-> FALSE, sec |-> d]

\* x > y for a time difference x (possibly infinite) and an integer y.
DiffGreater(x, y) == x.inf \/ x.sec > y

Range(s) == {s[i] : i \in 1..Len(s)}

\* Lexicographic order on integer tuples of one length.
RECURSIVE TupleLess(_, _)
TupleLess(a, b) ==
    /\ a # <<>>
    /\ \/ Head(a) < Head(b)
       \/ Head(a) = Head(b) /\ TupleLess(Tail(a), Tail(b))

\* The keys of a groupby in the order pandas lists the groups (sorted).
RECURSIVE SortedKeys(_)
SortedKeys(S) ==
    IF S = {} THEN <<>>
    ELSE LET m == CHOOSE k \in S : \A o \in S \ {k} : TupleLess(k, o)
         IN  <<m>> \o SortedKeys(S \ {m})

----------------------------------------------------------------------------
(* Tables *)

\* df[name] = vals, in place.
SetColumn(t, name, vals) ==
    [cols     |-> t.cols \cup {name},
     temporal |-> t.temporal,
     rows     |-> [i \in 1..Len(t.rows) |->
                     [c \in t.cols \cup {name} |->
                        IF c = name THEN vals[i] ELSE t.rows[i][c]]]]

\* One left row joined with the right rows that match it on the keys; a left
\* row without a match is kept once, its new columns undefined.
JoinRow(l, right, keys, newcols) ==
    LET matches == SelectSeq(right, LAMBDA r : \A k \in keys : r[k] = l[k])
        ext(r)  == [c \in DOMAIN l \cup newcols |->
                      IF c \in newcols THEN r[c] ELSE l[c]]
        miss    == [c \in DOMAIN l \cup newcols |->
                      IF c \in newcols THEN NA ELSE l[c]]
    IN  IF matches = <<>> THEN <<miss>>
        ELSE [j \in 1..Len(matches) |-> ext(matches[j])]

\* left.merge(right, on=keys, how="left"): the left rows in their order, each
\* once per matching right row.
RECURSIVE MergeRows(_, _, _, _)
MergeRows(left, right, keys, newcols) ==
    IF left = <<>> THEN <<>>
    ELSE JoinRow(Head(left), right, keys, newcols)
         \o MergeRows(Tail(left), right, keys, newcols)

Merge(t, right, keys, newcols) ==
    [cols     |-> t.cols \cup newcols,
     temporal |-> t.temporal,
     rows     |-> MergeRows(t.rows, right, keys, newcols)]

----------------------------------------------------------------------------
(* add_severity_score *)

\* Mutant: unmapped severities filled with 0 (.fillna(0)).
sev_to_score_fill0(s) ==
    CASE s = "low"      -> Float64(1, 1)
      [] s = "medium"   -> Float64(2, 1)
      [] s = "high"     -> Float64(3, 1)
      [] s = "critical" -> Float64(4, 1)
      [] OTHER          -> Float64(0, 1)

sev_to_score(s) ==
    CASE s = "info"     -> Float64(0, 1)
      [] s = "low"      -> Float64(1, 1)
      [] s = "medium"   -> Float64(2, 1)
      [] s = "high"     -> Float64(3, 1)
      [] s = "critical" -> Float64(4, 1)
      [] OTHER          -> NA

\* df["severity"].map(sev_to_score).astype("Float64")
SeverityScores(t) ==
    [i \in 1..Len(t.rows) |-> sev_to_score(t.rows[i]["severity"])]

\* Mutant: the stage assigns on a copy (df = df.copy() first).
CallerKeepsCopy(c, assigned, al) == c

\* The caller's table after `df[name] = ...` on run_all's df: the assignment
\* is in place, so it shows on the caller's table while df is that object.
CallerAfterAssign(c, assigned, al) == IF al THEN assigned ELSE c

add_severity_score ==
    /\ pc = "severity"
    /\ IF "severity" \notin df.cols
       THEN \* df["severity"] raises KeyError
            /\ pc' = "error"
            /\ UNCHANGED <<df, caller_df, alias, df0, gap_minutes>>
       ELSE /\ df' = SetColumn(df, "severity_score", SeverityScores(df))
            /\ caller_df' = CallerAfterAssign(caller_df, df', alias)
            /\ pc' = "frequency"
            /\ UNCHANGED <<alias, df0, gap_minutes>>

----------------------------------------------------------------------------
(* add_user_event_frequency *)

\* groupby("user_id")["event_id"].transform("count")
UserEventCounts(t) ==
    [i \in 1..Len(t.rows) |->
        Cardinality({j \in 1..Len(t.rows) :
                        t.rows[j]["user_id"] = t.rows[i]["user_id"]})]

add_user_event_frequency ==
    /\ pc = "frequency"
    /\ IF "user_id" \notin df.cols
       THEN \* return df
            /\ pc' = "baseline"
            /\ UNCHANGED <<df, caller_df, alias, df0, gap_minutes>>
       ELSE IF "event_id" \notin df.cols
       THEN \* groupby(...)["event_id"] raises KeyError
            /\ pc' = "error"
            /\ UNCHANGED <<df, caller_df, alias, df0, gap_minutes>>
       ELSE /\ df' = SetColumn(df, "user_event_count_total", UserEventCounts(df))
            /\ caller_df' = CallerAfterAssign(caller_df, df', alias)
            /\ pc' = "baseline"
            /\ UNCHANGED <<alias, df0, gap_minutes>>

----------------------------------------------------------------------------
(* add_user_activity_baseline *)

\* Mutant: the date is the timestamp itself (no floor).
FloorDayNone(ts) == ts

\* timestamp.dt.floor("D"): midnight (UTC) of the timestamp's day.
FloorDay(ts) == (ts \div DaySeconds) * DaySeconds

\* tmp.groupby(["user_id", "date"], as_index=False).size()
daily_counts(rows) ==
    LET ks == SortedKeys({<<r["user_id"], FloorDay(r["timestamp"])>> : r \in Range(rows)})
    IN  [k \in 1..Len(ks) |->
           [user_id |-> ks[k][1],
            date    |-> ks[k][2],
            size    |-> Cardinality({i \in 1..Len(rows) :
                           /\ rows[i]["user_id"] = ks[k][1]
                           /\ FloorDay(rows[i]["timestamp"]) = ks[k][2]})]]

RECURSIVE SumSizes(_)
SumSizes(s) == IF s = <<>> THEN 0 ELSE Head(s).size + SumSizes(Tail(s))

\* Mutant: the per-day counts are not averaged per user (one row per user
\* and day reaches the merge).
avg_per_user_day(dc) ==
    [k \in 1..Len(dc) |->
        [user_id |-> dc[k].user_id,
         user_daily_avg_events |-> Float64(dc[k].size, 1)]]

\* daily_counts.groupby("user_id", as_index=False)["size"].mean()
\*   .rename(columns={"size": "user_daily_avg_events"})
avg_per_user(dc) ==
    LET ks == SortedKeys({<<d.user_id>> : d \in Range(dc)})
    IN  [k \in 1..Len(ks) |->
           LET mine == SelectSeq(dc, LAMBDA d : d.user_id = ks[k][1])
           IN  [user_id |-> ks[k][1],
                user_daily_avg_events |-> Float64(SumSizes(mine), Len(mine))]]

UserActivityBaseline(t) ==
    Merge(t, avg_per_user(daily_counts(t.rows)), {"user_id"}, {"user_daily_avg_events"})

add_user_activity_baseline ==
    /\ pc = "baseline"
    /\ IF "timestamp" \notin df.cols \/ ~df.temporal
       THEN \* return df
            /\ pc' = "sessions"
            /\ UNCHANGED <<df, caller_df, alias, df0, gap_minutes>>
       ELSE IF "user_id" \notin df.cols
       THEN \* df[["user_id", "timestamp"]] raises KeyError
            /\ pc' = "error"
            /\ UNCHANGED <<df, caller_df, alias, df0, gap_minutes>>
       ELSE \* merge returns a new table: df no longer names the caller's
            /\ df' = UserActivityBaseline(df)
            /\ alias' = FALSE
            /\ pc' = "sessions"
            /\ UNCHANGED <<caller_df, df0, gap_minutes>>

----------------------------------------------------------------------------
(* add_session_features *)

\* Mutant: sort_values(["timestamp"]) only.
RowLessByTime(a, b) == a["timestamp"] < b["timestamp"]

\* The order of sort_values(["user_id", "timestamp"]).
RowLess(a, b) ==
    \/ a["user_id"] < b["user_id"]
    \/ a["user_id"] = b["user_id"] /\ a["timestamp"] < b["timestamp"]

\* r put after every row of the sorted s that is not greater than it.
RECURSIVE Insert(_, _)
Insert(s, r) ==
    IF s = <<>> THEN <<r>>
    ELSE IF RowLess(r, Head(s)) THEN <<r>> \o s
    ELSE <<Head(s)>> \o Insert(Tail(s), r)

\* Mutant: the table is not sorted before the differences are taken.
SortValuesSkipped(rows) == rows

\* df.sort_values(["user_id", "timestamp"]): rows with equal keys keep their
\* relative order.
RECURSIVE SortValues(_)
SortValues(rows) ==
    IF rows = <<>> THEN <<>>
    ELSE Insert(SortValues(SubSeq(rows, 1, Len(rows) - 1)), rows[Len(rows)])

\* The rows before row i that are of row i's user.
EarlierInGroup(rows, i) ==
    {j \in 1..(i - 1) : rows[j]["user_id"] = rows[i]["user_id"]}

SetMax(S) == CHOOSE m \in S : \A o \in S : o <= m
SetMin(S) == CHOOSE m \in S : \A o \in S : m <= o

\* Mutant: a group's first difference filled with 0 (.fillna(0)).
time_diff_sec_fill0(rows, i) ==
    IF EarlierInGroup(rows, i) = {} THEN Finite(0)
    ELSE Finite(rows[i]["timestamp"] - rows[SetMax(EarlierInGroup(rows, i))]["timestamp"])

\* groupby("user_id")["timestamp"].diff().dt.total_seconds().fillna(np.inf)
time_diff_sec(rows, i) ==
    IF EarlierInGroup(rows, i) = {} THEN Inf
    ELSE Finite(rows[i]["timestamp"] - rows[SetMax(EarlierInGroup(rows, i))]["timestamp"])

\* Mutant: df["_time_diff_sec"] >= gap_seconds
new_session_ge(rows, i, gap_seconds) ==
    \/ time_diff_sec(rows, i).inf
    \/ time_diff_sec(rows, i).sec >= gap_seconds

\* df["_time_diff_sec"] > gap_seconds
new_session(rows, i, gap_seconds) ==
    DiffGreater(time_diff_sec(rows, i), gap_seconds)

\* new_session.groupby(df["user_id"]).cumsum().astype(int)
session_id(rows, i, gap_seconds) ==
    Cardinality({j \in EarlierInGroup(rows, i) \cup {i} : new_session(rows, j, gap_seconds)})

\* Mutant: the statistics are aggregated over session_id alone.
sess_stats_by_session(rows) ==
    LET ks == SortedKeys({<<r["user_id"], r["session_id"]>> : r \in Range(rows)})
    IN  [k \in 1..Len(ks) |->
           LET grp == {i \in 1..Len(rows) : rows[i]["session_id"] = ks[k][2]}
               session_start == SetMin({rows[i]["timestamp"] : i \in grp})
               session_end   == SetMax({rows[i]["timestamp"] : i \in grp})
           IN  [user_id |-> ks[k][1],
                session_id |-> ks[k][2],
                session_event_count |-> Cardinality(grp),
                session_duration_seconds |-> Float64(session_end - session_start, 1)]]

\* df.groupby(["user_id", "session_id"]).agg(count, min, max).reset_index(),
\* with session_duration_seconds = session_end - session_start in seconds.
sess_stats(rows) ==
    LET ks == SortedKeys({<<r["user_id"], r["session_id"]>> : r \in Range(rows)})
    IN  [k \in 1..Len(ks) |->
           LET grp == {i \in 1..Len(rows) :
                          /\ rows[i]["user_id"] = ks[k][1]
                          /\ rows[i]["session_id"] = ks[k][2]}
               session_start == SetMin({rows[i]["timestamp"] : i \in grp})
               session_end   == SetMax({rows[i]["timestamp"] : i \in grp})
           IN  [user_id |-> ks[k][1],
                session_id |-> ks[k][2],
                session_event_count |-> Cardinality(grp),
                session_duration_seconds |-> Float64(session_end - session_start, 1)]]

\* Mutant: no early return.
SessionNoFallback(t) == FALSE

\* Whether add_session_features returns its argument as it is (lines 69-70).
SessionPassThrough(t) == "timestamp" \notin t.cols

\* Whether add_session_features raises: sort_values and the aggregation need
\* user_id and event_id (KeyError), .dt needs a datetime column.
SessionRaises(t) ==
    \/ "user_id" \notin t.cols
    \/ "event_id" \notin t.cols
    \/ "timestamp" \notin t.cols
    \/ ~t.temporal

SessionFeatures(t, gap) ==
    LET gap_seconds == gap * SecondsPerMinute
        sorted == [cols |-> t.cols, temporal |-> t.temporal, rows |-> SortValues(t.rows)]
        ids    == [i \in 1..Len(sorted.rows) |-> session_id(sorted.rows, i, gap_seconds)]
        withId == SetColumn(sorted, "session_id", ids)
    IN  Merge(withId, sess_stats(withId.rows), {"user_id", "session_id"},
              {"session_event_count", "session_duration_seconds"})

add_session_features ==
    /\ pc = "sessions"
    /\ IF SessionPassThrough(df)
       THEN \* return df
            /\ pc' = "done"
            /\ UNCHANGED <<df, caller_df, alias, df0, gap_minutes>>
       ELSE IF SessionRaises(df)
       THEN /\ pc' = "error"
            /\ UNCHANGED <<df, caller_df, alias, df0, gap_minutes>>
       ELSE \* sort_values(...).copy() and merge return new tables
            /\ df' = SessionFeatures(df, gap_minutes)
            /\ alias' = FALSE
            /\ pc' = "done"
            /\ UNCHANGED <<caller_df, df0, gap_minutes>>

----------------------------------------------------------------------------
(* run_all, called on the tables below *)

BaseRow(cols, id, u, ts, sev) ==
    [c \in cols |->
        CASE c = "event_id"  -> id
          [] c = "user_id"   -> u
          [] c = "timestamp" -> ts
          [] c = "severity"  -> sev]

\* Cleaned, normalised tables: every column, a datetime timestamp, event_id
\* unique (a row's event_id is its place in the input), any users and times.
EventTables ==
    { [cols |-> BaseColumns, temporal |-> TRUE,
       rows |-> [i \in 1..n |-> BaseRow(BaseColumns, i, us[i], ts[i], "info")]] :
         <<n, us, ts>> \in UNION { {n} \X [1..n -> Users] \X [1..n -> Times] : n \in 0..MaxRows } }

\* The same with one user at one time and any severities.
SeverityTables ==
    { [cols |-> BaseColumns, temporal |-> TRUE,
       rows |-> [i \in 1..n |-> BaseRow(BaseColumns, i, 1, 0, sv[i])]] :
         <<n, sv>> \in UNION { {n} \X [1..n -> Severities] : n \in 1..MaxRows } }

\* Tables lacking columns, or with a timestamp column that is not a datetime.
PartialTables ==
    { [cols |-> cs, temporal |-> tmp,
       rows |-> <<BaseRow(cs, 1, 2, 60, "high"), BaseRow(cs, 2, 1, 121, "unknown"),
                  BaseRow(cs, 3, 1, 0, "low")>>] :
         <<cs, tmp>> \in (SUBSET BaseColumns) \X BOOLEAN }

Init ==
    /\ df \in EventTables \cup SeverityTables \cup PartialTables
    /\ caller_df = df
    /\ df0 = df
    /\ alias = TRUE
    /\ gap_minutes \in GapChoices
    /\ pc = "severity"

run_all ==
    \/ add_severity_score
    \/ add_user_event_frequency
    \/ add_user_activity_baseline
    \/ add_session_features

Next == run_all

Spec == Init /\ [][Next]_vars

----------------------------------------------------------------------------
(* Vocabulary of the properties *)

\* run_all returned a table that carries the session columns.
HasSessions == pc = "done" /\ "session_id" \in df.cols

\* run_all was called on a valid table: every column, a datetime timestamp.
ValidInput == df0.cols = BaseColumns /\ df0.temporal

RowsOf(t, u) == {i \in 1..Len(t.rows) : t.rows[i]["user_id"] = u}

SessionIdsOf(t, u) == {t.rows[i]["session_id"] : i \in RowsOf(t, u)}

EventIds(t) == [i \in 1..Len(t.rows) |-> t.rows[i]["event_id"]]

\* Rows i and j of one user are consecutive in time: i is not after j and no
\* record of the user lies strictly between them.
ConsecutiveInTime(t, i, j) ==
    /\ i # j
    /\ t.rows[i]["user_id"] = t.rows[j]["user_id"]
    /\ t.rows[i]["timestamp"] <= t.rows[j]["timestamp"]
    /\ \A k \in RowsOf(t, t.rows[i]["user_id"]) :
          ~(/\ t.rows[i]["timestamp"] < t.rows[k]["timestamp"]
            /\ t.rows[k]["timestamp"] < t.rows[j]["timestamp"])

\* Chronological order of session ids within every user.
IdsFollowTime ==
    \A i, j \in 1..Len(df.rows) :
        (/\ df.rows[i]["user_id"] = df.rows[j]["user_id"]
         /\ df.rows[i]["timestamp"] < df.rows[j]["timestamp"])
        => df.rows[i]["session_id"] <= df.rows[j]["session_id"]

----------------------------------------------------------------------------
(* C1 *)

\* C1 as stated: every user's session ids, in time order, are 0, 1, 2, ...:
\* the first record has id 0.
C1_IdsFromZero ==
    HasSessions =>
        /\ IdsFollowTime
        /\ \A u \in Users : RowsOf(df, u) # {} =>
              SessionIdsOf(df, u) = 0..(Cardinality(SessionIdsOf(df, u)) - 1)

\* C1 amended: every user's session ids, in time order, are 1, 2, 3, ...: the
\* user's first record is itself counted as a session start, so it has id 1,
\* and each later session start raises the id by exactly 1.
C1_IdsFromOne ==
    HasSessions =>
        /\ IdsFollowTime
        /\ \A u \in Users : RowsOf(df, u) # {} =>
              SessionIdsOf(df, u) = 1..Cardinality(SessionIdsOf(df, u))

C1_Witness ==
    /\ HasSessions
    /\ \E u \in Users : SessionIdsOf(df, u) = {1, 2, 3}

----------------------------------------------------------------------------
(* C2 *)

\* The order of (user_id, timestamp), written without the model's RowLess.
KeyOrdered(a, b) ==
    \/ a["user_id"] < b["user_id"]
    \/ a["user_id"] = b["user_id"] /\ a["timestamp"] <= b["timestamp"]

IsKeySorted(rows) ==
    \A i \in 1..(Len(rows) - 1) : KeyOrdered(rows[i], rows[i + 1])

\* C2 as stated: the returned table lists the records in the input's row order.
C2_InputOrderKept ==
    HasSessions => EventIds(df) = EventIds(df0)

\* C2 amended: the returned table lists the records in ascending
\* (user_id, timestamp) order, the sort not being undone; it is the input's
\* row order only when the input was already in that order.
C2_SortedOrderReturned ==
    HasSessions =>
        /\ IsKeySorted(df.rows)
        /\ IsKeySorted(df0.rows) <=> EventIds(df) = EventIds(df0)

C2_Witness ==
    /\ HasSessions
    /\ ~IsKeySorted(df0.rows)
    /\ EventIds(df) # EventIds(df0)

----------------------------------------------------------------------------
(* C3 *)

\* C3: two records of a user that are consecutive in time have the same
\* session_id when they are gap_minutes*60 seconds apart or less, and
\* different session_ids when they are further apart.
C3_GapBoundary ==
    HasSessions =>
        \A i, j \in 1..Len(df.rows) : ConsecutiveInTime(df, i, j) =>
            LET delta == df.rows[j]["timestamp"] - df.rows[i]["timestamp"]
                same  == df.rows[i]["session_id"] = df.rows[j]["session_id"]
            IN  (delta <= gap_minutes * 60) <=> same

C3_Witness ==
    /\ HasSessions
    /\ \E i, j \in 1..Len(df.rows) :
          /\ ConsecutiveInTime(df, i, j)
          /\ df.rows[j]["timestamp"] - df.rows[i]["timestamp"] = gap_minutes * 60
          /\ df.rows[i]["session_id"] = df.rows[j]["session_id"]
    /\ \E i, j \in 1..Len(df.rows) :
          /\ ConsecutiveInTime(df, i, j)
          /\ df.rows[j]["timestamp"] - df.rows[i]["timestamp"] = gap_minutes * 60 + 1
          /\ df.rows[i]["session_id"] # df.rows[j]["session_id"]

----------------------------------------------------------------------------
(* C4 *)

\* C4: on a valid input run_all returns as many rows as it was given, with
\* every event_id of the input exactly once.
C4_RowsPreserved ==
    (pc = "done" /\ ValidInput) =>
        /\ Len(df.rows) = Len(df0.rows)
        /\ \A id \in Range(EventIds(df0)) :
              Cardinality({i \in 1..Len(df.rows) : df.rows[i]["event_id"] = id}) = 1

C4_Witness ==
    /\ pc = "done" /\ ValidInput
    /\ Len(df.rows) = Len(df0.rows)
    /\ \E i, j \in 1..Len(df.rows) :
          /\ df.rows[i]["user_id"] = df.rows[j]["user_id"]
          /\ df.rows[i]["timestamp"] \div 86400 # df.rows[j]["timestamp"] \div 86400
          /\ df.rows[i]["session_id"] # df.rows[j]["session_id"]

----------------------------------------------------------------------------
(* C5 *)

\* C5: a user's sessions are contiguous in time: whenever two records of a
\* user share a session_id, every record of that user between them in time
\* has that session_id too.
C5_SessionsContiguous ==
    HasSessions =>
        \A a, b, c \in 1..Len(df.rows) :
            (/\ df.rows[a]["user_id"] = df.rows[b]["user_id"]
             /\ df.rows[a]["user_id"] = df.rows[c]["user_id"]
             /\ df.rows[a]["session_id"] = df.rows[b]["session_id"]
             /\ df.rows[a]["timestamp"] <= df.rows[c]["timestamp"]
             /\ df.rows[c]["timestamp"] <= df.rows[b]["timestamp"])
            => df.rows[c]["session_id"] = df.rows[a]["session_id"]

C5_Witness ==
    /\ HasSessions
    /\ ~IsKeySorted(df0.rows)
    /\ \E a, b, c \in 1..Len(df.rows) :
          /\ df.rows[a]["user_id"] = df.rows[b]["user_id"]
          /\ df.rows[a]["user_id"] = df.rows[c]["user_id"]
          /\ df.rows[a]["timestamp"] < df.rows[c]["timestamp"]
          /\ df.rows[c]["timestamp"] < df.rows[b]["timestamp"]
          /\ df.rows[a]["session_id"] = df.rows[c]["session_id"]
          /\ df.rows[c]["session_id"] = df.rows[b]["session_id"]

----------------------------------------------------------------------------
(* C6 *)

SessionMates(i) ==
    {j \in 1..Len(df.rows) :
        /\ df.rows[j]["user_id"] = df.rows[i]["user_id"]
        /\ df.rows[j]["session_id"] = df.rows[i]["session_id"]}

\* C6: on every returned record session_event_count is the number of returned
\* rows with its (user_id, session_id) and session_duration_seconds is the
\* largest minus the smallest timestamp of those rows: defined, >= 0, and 0
\* for a session of one event.
C6_SessionAggregates ==
    HasSessions =>
        \A i \in 1..Len(df.rows) :
            LET ts  == {df.rows[j]["timestamp"] : j \in SessionMates(i)}
                dur == df.rows[i]["session_duration_seconds"]
            IN  /\ df.rows[i]["session_event_count"] = Cardinality(SessionMates(i))
                /\ ~dur.na /\ dur.den = 1 /\ dur.num >= 0
                /\ \E lo, hi \in ts :
                      /\ \A t \in ts : lo <= t /\ t <= hi
                      /\ dur.num = hi - lo
                /\ Cardinality(SessionMates(i)) = 1 => dur.num = 0

C6_Witness ==
    /\ HasSessions
    /\ \E i, j \in 1..Len(df.rows) :
          /\ df.rows[i]["session_event_count"] = 2
          /\ df.rows[i]["session_duration_seconds"].num = 60
          /\ df.rows[j]["session_event_count"] = 1
          /\ df.rows[j]["session_duration_seconds"].num = 0

----------------------------------------------------------------------------
(* C7 *)

\* The distinct UTC calendar days on which user u has a record of table t.
ActiveDays(t, u) == {t.rows[i]["timestamp"] \div 86400 : i \in RowsOf(t, u)}

\* C7: once add_user_activity_baseline has run on a table with a datetime
\* timestamp, every record carries user_daily_avg_events equal to the number
\* of its user's records divided by the number of that user's active days.
C7_DailyAverage ==
    (pc \in {"sessions", "done"} /\ "user_daily_avg_events" \in df.cols) =>
        \A i \in 1..Len(df.rows) :
            LET u   == df.rows[i]["user_id"]
                avg == df.rows[i]["user_daily_avg_events"]
            IN  /\ ~avg.na
                /\ avg.num * Cardinality(ActiveDays(df, u))
                      = Cardinality(RowsOf(df, u)) * avg.den

C7_Witness ==
    /\ pc = "sessions" /\ "user_daily_avg_events" \in df.cols
    /\ \E u \in Users :
          /\ Cardinality(RowsOf(df, u)) = 3
          /\ ActiveDays(df, u) = {0, 2}
          /\ \A i \in RowsOf(df, u) :
                df.rows[i]["user_daily_avg_events"] = [na |-> FALSE, num |-> 3, den |-> 2]

----------------------------------------------------------------------------
(* C8 *)

ScoreIs(n) == [na |-> FALSE, num |-> n, den |-> 1]

\* C8: add_severity_score does not raise on a table with a severity column and
\* scores info, low, medium, high, critical as 0, 1, 2, 3, 4; every other
\* severity gets the undefined value, which is not score 0.
C8_SeverityScore ==
    (pc # "severity" /\ "severity" \in df0.cols) =>
        /\ "severity_score" \in df.cols
        /\ \A i \in 1..Len(df.rows) :
              LET sev   == df.rows[i]["severity"]
                  score == df.rows[i]["severity_score"]
              IN  /\ sev = "info"     => score = ScoreIs(0)
                  /\ sev = "low"      => score = ScoreIs(1)
                  /\ sev = "medium"   => score = ScoreIs(2)
                  /\ sev = "high"     => score = ScoreIs(3)
                  /\ sev = "critical" => score = ScoreIs(4)
                  /\ sev \notin {"info", "low", "medium", "high", "critical"}
                        => score.na /\ score # ScoreIs(0)

C8_Witness ==
    /\ pc = "frequency"
    /\ Len(df.rows) = 3
    /\ df.rows[1]["severity"] = "info"    /\ df.rows[1]["severity_score"] = ScoreIs(0)
    /\ df.rows[2]["severity"] = "unknown" /\ df.rows[2]["severity_score"].na
    /\ df.rows[3]["severity"] = "debug"   /\ df.rows[3]["severity_score"].na

----------------------------------------------------------------------------
(* C9 *)

SessionColumns == {"timestamp", "user_id", "event_id"}

\* The two pass-throughs of the optional-dependency stages, and the severity
\* scorer raising for want of its column.
OptionalStagesPassThrough ==
    /\ (pc = "severity" /\ "severity" \notin df.cols) => pc' = "error"
    /\ (pc = "frequency" /\ "user_id" \notin df.cols)
          => (pc' = "baseline" /\ df' = df)
    /\ (pc = "baseline" /\ ("timestamp" \notin df.cols \/ ~df.temporal))
          => (pc' = "sessions" /\ df' = df)

\* C9 as stated: only the frequency and daily-rate stages pass a table lacking
\* their column through; add_session_features, given a table lacking a column
\* it requires, does not return it unchanged.
C9_OnlyTwoFallbacks ==
    [][/\ OptionalStagesPassThrough
       /\ (pc = "sessions" /\ ~(SessionColumns \subseteq df.cols))
             => ~(pc' = "done" /\ df' = df)]_vars

\* C9 amended: the pass-through applies to the frequency stage (user_id
\* absent), the daily-rate stage (timestamp absent or not a datetime) and also
\* to add_session_features when timestamp is absent, which returns the table
\* unchanged without the session columns; the severity scorer has no fallback,
\* and add_session_features has none for user_id or event_id.
C9_ThreeFallbacks ==
    [][/\ OptionalStagesPassThrough
       /\ (pc = "sessions" /\ "timestamp" \notin df.cols)
             => (pc' = "done" /\ df' = df)
       /\ (pc = "sessions" /\ "timestamp" \in df.cols
              /\ ~(SessionColumns \subseteq df.cols))
             => pc' = "error"]_vars

C9_Witness ==
    /\ pc = "done"
    /\ "timestamp" \notin df0.cols
    /\ "session_id" \notin df.cols
    /\ "user_id" \in df.cols

----------------------------------------------------------------------------
(* C10 *)

\* C10 as stated: after run_all returns, the caller's table is as it was.
C10_CallerTableUntouched ==
    pc = "done" => caller_df = df0

\* C10 amended: run_all adds severity_score and (user_id present)
\* user_event_count_total to the caller's table in place; it changes none of
\* the caller's rows, their order or their original values, and the other
\* derived columns appear only on the returned table.
C10_CallerTableGainsTwoColumns ==
    pc = "done" =>
        /\ caller_df.cols = df0.cols \cup {"severity_score"}
              \cup (IF "user_id" \in df0.cols THEN {"user_event_count_total"} ELSE {})
        /\ caller_df.temporal = df0.temporal
        /\ Len(caller_df.rows) = Len(df0.rows)
        /\ \A i \in 1..Len(df0.rows) : \A c \in df0.cols :
              caller_df.rows[i][c] = df0.rows[i][c]

C10_Witness ==
    /\ pc = "done"
    /\ ~alias
    /\ Len(df0.rows) > 0
    /\ {"severity_score", "user_event_count_total"} \subseteq caller_df.cols \ df0.cols
    /\ {"user_daily_avg_events", "session_id"} \subseteq df.cols \ caller_df.cols

====
